---- MODULE Spec2Model ----
(***************************************************************************)
(* koji-ansible: the koji_tag and koji_cg modules (library/koji_tag.py,    *)
(* library/koji_cg.py) as a state machine over the state of the Koji hub.  *)
(* One action is one run of a module's run_module(); the hub calls a run   *)
(* issues are recorded, in order, in the run's record.                     *)
(***************************************************************************)
EXTENDS Integers, Sequences, FiniteSets, TLC

\* ------------------------------------------------------------ bounds
\* Module runs in one behaviour.
MaxRuns == 2
\* Priorities of inheritance rules and external repos range over 0..MaxPriority.
MaxPriority == 1
\* Declared inheritance and external-repo lists hold at most MaxLen entries.
MaxLen == 2

\* ------------------------------------------------------------ universe
\* The tag the module manages ("name"), and the tags its inheritance names.
TagName == "T"
ParentNames == {"P1", "P2"}
RepoNames == {"r1", "r2"}
PkgNames == {"foo", "bar"}
OwnerNames == {"alice", "bob"}
ExtraKeys == {"a", "b"}
\* perm: '' stands for None, as run_module's `params['perm'] or None` has it.
NoPerm == ""
Priorities == 0..MaxPriority

\* The hub's ids of the parent tags (the managed tag gets the hub's next id).
ParentId(p) == IF p = "P1" THEN 1 ELSE 2

\* ------------------------------------------------------------ state
VARIABLES
    remote,      \* the Koji hub: the tag, its sub-resources, the permission table, CG access
    perm_cache,  \* koji_tag.perm_cache, the process-wide name -> id mapping
    desired,     \* the task's parameters (module.params), fixed for a behaviour
    prev,        \* the record of the run before the last one
    last,        \* the record of the last run
    nruns,       \* runs so far
    fetches      \* getAllPerms calls so far in this process

vars == <<remote, perm_cache, desired, prev, last, nruns, fetches>>

\* ------------------------------------------------------------ sequences
RECURSIVE SeqToSet(_)
SeqToSet(s) == IF s = <<>> THEN {} ELSE {Head(s)} \cup SeqToSet(Tail(s))

RECURSIVE Concat(_)
Concat(ss) == IF ss = <<>> THEN <<>> ELSE Head(ss) \o Concat(Tail(ss))

\* The permutations of a set, as sequences: the orders Python may iterate a set in.
RECURSIVE Perms(_)
Perms(S) ==
    IF S = {} THEN {<<>>}
    ELSE UNION {{<<x>> \o p : p \in Perms(S \ {x})} : x \in S}

\* The members of set S in the order `ord` lists them.
Ordered(S, ord) == SelectSeq(ord, LAMBDA x : x \in S)

\* ------------------------------------------------------------ a run in progress
\* rs: [remote, cache, fetches, calls, log, changed, status, failAt, failed, tagid]
\* failed: the index in calls of the call that raised (0: none did).
\* status "running" until the run returns or raises.
Running(rs) == rs.status = "running"

WriteOps ==
    {"createTag", "editTag2", "deleteTag", "setInheritanceData",
     "addExternalRepoToTag", "editTagExternalRepo", "removeExternalRepoFromTag",
     "packageListAdd", "packageListSetOwner", "packageListRemove",
     "grantCGAccess", "revokeCGAccess"}

IsWrite(c) == c.op \in WriteOps

\* A hub call that fails raises (koji.GenericError and the like); the hub is
\* left as it was. The run's failAt-th call is the one that fails (0: none).
CallFails(rs) == rs.failAt = Len(rs.calls) + 1

\* A read: session.getTag, getInheritanceData, getTagExternalRepos, listPackages, getAllPerms.
Read(rs, c) ==
    IF ~Running(rs) THEN rs
    ELSE IF CallFails(rs)
         THEN [rs EXCEPT !.calls = Append(@, c), !.status = "RemoteCallFailure",
                         !.failed = Len(rs.calls) + 1]
         ELSE [rs EXCEPT !.calls = Append(@, c)]

\* Write with the exception caught and passed over: the run goes on.
Write_Swallow(rs, c, accepted, newRemote) ==
    IF ~Running(rs) THEN rs
    ELSE IF CallFails(rs) \/ ~accepted
         THEN [rs EXCEPT !.calls = Append(@, c), !.failed = Len(rs.calls) + 1]
         ELSE [rs EXCEPT !.calls = Append(@, c), !.remote = newRemote]

\* A write: the call c, after which the hub is newRemote. The hub raises, and
\* changes nothing, when it does not accept the call (accepted = FALSE).
Write(rs, c, accepted, newRemote) ==
    IF ~Running(rs) THEN rs
    ELSE IF CallFails(rs) \/ ~accepted
         THEN [rs EXCEPT !.calls = Append(@, c), !.status = "RemoteCallFailure",
                         !.failed = Len(rs.calls) + 1]
         ELSE [rs EXCEPT !.calls = Append(@, c), !.remote = newRemote]

\* Changed that appends the message and leaves result['changed'] as it is.
Changed_LogOnly(rs, msg) ==
    IF ~Running(rs) THEN rs
    ELSE [rs EXCEPT !.log = Append(@, msg)]

\* result['stdout_lines'].append(msg); result['changed'] = True
Changed(rs, msg) ==
    IF ~Running(rs) THEN rs
    ELSE [rs EXCEPT !.log = Append(@, msg), !.changed = TRUE]

\* ------------------------------------------------------------ get_perm_id
\* perm_cache[name] of a name the cache holds.
PermIdOf(cache, name) == (CHOOSE p \in cache : p.name = name).id

\* The hub's name of a permission id (getTag's 'perm'), NoPerm for none.
PermNameOf(perms, id) ==
    IF \E p \in perms : p.id = id THEN (CHOOSE p \in perms : p.id = id).name
    ELSE NoPerm

\* `if not perm_cache: perm_cache = dict(... session.getAllPerms())`
FillPermCache(rs) ==
    IF ~Running(rs) \/ rs.cache # {} THEN rs
    ELSE LET r1 == Read(rs, [op |-> "getAllPerms", tag |-> ""])
         IN  IF Running(r1)
             THEN [r1 EXCEPT !.cache = rs.remote.perms, !.fetches = @ + 1]
             ELSE r1

\* get_perm_id: the run after the lookup; KeyError when the name is not cached.
get_perm_id(rs, name) ==
    LET r1 == FillPermCache(rs)
    IN  IF ~Running(r1) THEN r1
        ELSE IF \E p \in r1.cache : p.name = name
             THEN r1
             ELSE [r1 EXCEPT !.status = "UnknownPermission"]

\* ------------------------------------------------------------ ensure_external_repos
\* current = {repo['external_repo_name']: repo for repo in current_repo_list}
RepoBound(current, repo_name) == \E b \in current : b.external_repo_name = repo_name
RepoPriority(current, repo_name) ==
    (CHOOSE b \in current : b.external_repo_name = repo_name).priority

\* The hub after addExternalRepoToTag / editTagExternalRepo / removeExternalRepoFromTag.
\* The hub refuses to add a repo the tag is already associated with.
HubSetRepo(rem, repo_name, priority) ==
    [rem EXCEPT !.repos = {b \in @ : b.external_repo_name # repo_name}
                          \cup {[external_repo_name |-> repo_name, priority |-> priority]}]
HubRemoveRepo(rem, repo_name) ==
    [rem EXCEPT !.repos = {b \in @ : b.external_repo_name # repo_name}]

\* EnsureOneRepo with the `if not check_mode` guards left out.
EnsureOneRepo_NoCheck(rs, tag_name, check_mode, current, repo) ==
    IF RepoBound(current, repo.repo)
    THEN IF repo.priority = RepoPriority(current, repo.repo)
         THEN rs
         ELSE Write(Changed(rs, <<"set repo priority", repo.repo, repo.priority>>),
                    [op |-> "editTagExternalRepo", tag |-> tag_name,
                     repo |-> repo.repo, priority |-> repo.priority],
                    TRUE, HubSetRepo(rs.remote, repo.repo, repo.priority))
    ELSE Write(Changed(rs, <<"add external repo", repo.repo, tag_name>>),
               [op |-> "addExternalRepoToTag", tag |-> tag_name,
                repo |-> repo.repo, priority |-> repo.priority],
               ~RepoBound(rs.remote.repos, repo.repo),
               HubSetRepo(rs.remote, repo.repo, repo.priority))

\* One pass of `for repo in repos`, against the snapshot `current`.
EnsureOneRepo(rs, tag_name, check_mode, current, repo) ==
    IF RepoBound(current, repo.repo)
    THEN IF repo.priority = RepoPriority(current, repo.repo)
         THEN rs
         ELSE LET r1 == Changed(rs, <<"set repo priority", repo.repo, repo.priority>>)
              IN  IF check_mode THEN r1
                  ELSE Write(r1, [op |-> "editTagExternalRepo", tag |-> tag_name,
                                  repo |-> repo.repo, priority |-> repo.priority],
                             TRUE, HubSetRepo(r1.remote, repo.repo, repo.priority))
    ELSE LET r1 == Changed(rs, <<"add external repo", repo.repo, tag_name>>)
         IN  IF check_mode THEN r1
             ELSE Write(r1, [op |-> "addExternalRepoToTag", tag |-> tag_name,
                             repo |-> repo.repo, priority |-> repo.priority],
                        ~RepoBound(r1.remote.repos, repo.repo),
                        HubSetRepo(r1.remote, repo.repo, repo.priority))

RECURSIVE EnsureRepoList(_, _, _, _, _)
EnsureRepoList(rs, tag_name, check_mode, current, repos) ==
    IF repos = <<>> \/ ~Running(rs) THEN rs
    ELSE EnsureRepoList(EnsureOneRepo(rs, tag_name, check_mode, current, Head(repos)),
                        tag_name, check_mode, current, Tail(repos))

\* `for repo_name in repos_to_remove`, in the order the set is iterated in.
RECURSIVE RemoveRepos(_, _, _, _)
RemoveRepos(rs, tag_name, check_mode, names) ==
    IF names = <<>> \/ ~Running(rs) THEN rs
    ELSE LET r1 == Changed(rs, <<"removed repo", Head(names), tag_name>>)
             r2 == IF check_mode THEN r1
                   ELSE Write(r1, [op |-> "removeExternalRepoFromTag", tag |-> tag_name,
                                   repo |-> Head(names)],
                              TRUE, HubRemoveRepo(r1.remote, Head(names)))
         IN  RemoveRepos(r2, tag_name, check_mode, Tail(names))

\* ReposToRemove with the difference taken the other way round.
ReposToRemove_Reversed(current, repos) ==
    {r.repo : r \in SeqToSet(repos)} \ {b.external_repo_name : b \in current}

\* repos_to_remove = set(current_names) - set(repo_names)
ReposToRemove(current, repos) ==
    {b.external_repo_name : b \in current} \ {r.repo : r \in SeqToSet(repos)}

ensure_external_repos(rs, tag_name, check_mode, repos, ordR) ==
    LET r0 == Read(rs, [op |-> "getTagExternalRepos", tag |-> tag_name])
        current == rs.remote.repos
        r1 == EnsureRepoList(r0, tag_name, check_mode, current, repos)
    IN  RemoveRepos(r1, tag_name, check_mode,
                    Ordered(ReposToRemove(current, repos), ordR))

\* ------------------------------------------------------------ ensure_tag
\* The **kwargs run_module passes on to createTag and editTag2.
AttrKeys == {"arches", "perm", "locked", "maven_support", "maven_include_all", "extra"}

Kwargs(d) == [k \in AttrKeys |-> d[k]]

\* session.getTag(name) of an existing tag: 'perm' is the permission's name.
TagInfo(rem) ==
    [id |-> rem.id,
     arches |-> rem.attrs.arches,
     perm |-> PermNameOf(rem.perms, rem.attrs.perm_id),
     locked |-> rem.attrs.locked,
     maven_support |-> rem.attrs.maven_support,
     maven_include_all |-> rem.attrs.maven_include_all,
     extra |-> rem.attrs.extra]

ExtraKeysOf(extra) == {e.key : e \in extra}

\* `for key, value in kwargs.items(): if taginfo[key] != value: edits[key] = value`
EditKeys(taginfo, kwargs) == {k \in AttrKeys : taginfo[k] # kwargs[k]}

\* RemoveExtra with the difference taken the other way round.
RemoveExtra_Reversed(taginfo, kwargs) ==
    ExtraKeysOf(kwargs.extra) \ ExtraKeysOf(taginfo.extra)

\* edits['remove_extra']: the keys of taginfo['extra'] that kwargs['extra'] lacks.
RemoveExtra(taginfo, kwargs) == ExtraKeysOf(taginfo.extra) \ ExtraKeysOf(kwargs.extra)

\* The hub's id of a permission name, 0 for None.
HubPermId(rem, perm) ==
    IF perm = NoPerm THEN 0 ELSE (CHOOSE p \in rem.perms : p.name = perm).id

\* The hub knows the permission an edit names.
HubKnowsPerm(rem, perm) == perm = NoPerm \/ \E p \in rem.perms : p.name = perm

\* The hub after editTag2(name, **edits).
HubEditTag(rem, keys, kwargs, remove_extra) ==
    [rem EXCEPT !.attrs =
        [arches |-> IF "arches" \in keys THEN kwargs.arches ELSE @.arches,
         perm_id |-> IF "perm" \in keys /\ HubKnowsPerm(rem, kwargs.perm)
                     THEN HubPermId(rem, kwargs.perm) ELSE @.perm_id,
         locked |-> IF "locked" \in keys THEN kwargs.locked ELSE @.locked,
         maven_support |-> IF "maven_support" \in keys
                           THEN kwargs.maven_support ELSE @.maven_support,
         maven_include_all |-> IF "maven_include_all" \in keys
                               THEN kwargs.maven_include_all ELSE @.maven_include_all,
         extra |-> {e \in @.extra : e.key \notin remove_extra
                                    /\ ("extra" \in keys => e.key \notin ExtraKeysOf(kwargs.extra))}
                   \cup (IF "extra" \in keys THEN kwargs.extra ELSE {})]]

\* The hub after createTag(name, parent=None, **kwargs), perm_id the resolved id.
HubCreateTag(rem, kwargs, perm_id) ==
    [rem EXCEPT !.exists = TRUE, !.id = rem.nextId, !.nextId = @ + 1,
                !.attrs = [arches |-> kwargs.arches, perm_id |-> perm_id,
                           locked |-> kwargs.locked,
                           maven_support |-> kwargs.maven_support,
                           maven_include_all |-> kwargs.maven_include_all,
                           extra |-> kwargs.extra],
                !.inheritance = <<>>, !.repos = {}, !.pkgs = {}]

\* The hub after deleteTag(name): the tag goes, and what hangs on it.
HubDeleteTag(rem) ==
    [rem EXCEPT !.exists = FALSE, !.id = 0, !.inheritance = <<>>, !.repos = {}, !.pkgs = {}]

\* CreateBranch that passes the perm on without get_perm_id (0 when the hub has none).
CreateBranch_NoResolve(rs, name, check_mode, kwargs) ==
    IF check_mode
    THEN [Changed(rs, <<"would create tag", name>>) EXCEPT !.status = "returned"]
    ELSE LET perm_id == IF HubKnowsPerm(rs.remote, kwargs.perm)
                        THEN HubPermId(rs.remote, kwargs.perm) ELSE 0
             r2 == Write(rs, [op |-> "createTag", tag |-> name, perm |-> perm_id], TRUE,
                         HubCreateTag(rs.remote, kwargs, perm_id))
             r3 == Changed(r2, <<"created tag id", r2.remote.id>>)
         IN  IF Running(r3) THEN [r3 EXCEPT !.tagid = r3.remote.id] ELSE r3

\* CreateBranch whose check-mode return leaves result['changed'] False.
CreateBranch_NoChanged(rs, name, check_mode, kwargs) ==
    IF check_mode
    THEN [rs EXCEPT !.log = Append(@, <<"would create tag", name>>), !.status = "returned"]
    ELSE LET r1 == IF kwargs.perm # NoPerm THEN get_perm_id(rs, kwargs.perm) ELSE rs
             perm_id == IF kwargs.perm # NoPerm /\ Running(r1)
                        THEN PermIdOf(r1.cache, kwargs.perm) ELSE 0
             r2 == Write(r1, [op |-> "createTag", tag |-> name, perm |-> perm_id], TRUE,
                         HubCreateTag(r1.remote, kwargs, perm_id))
             r3 == Changed(r2, <<"created tag id", r2.remote.id>>)
         IN  IF Running(r3) THEN [r3 EXCEPT !.tagid = r3.remote.id] ELSE r3

\* `if not taginfo:` - the tag is created, or in check mode announced.
CreateBranch(rs, name, check_mode, kwargs) ==
    IF check_mode
    THEN [Changed(rs, <<"would create tag", name>>) EXCEPT !.status = "returned"]
    ELSE LET r1 == IF kwargs.perm # NoPerm THEN get_perm_id(rs, kwargs.perm) ELSE rs
             perm_id == IF kwargs.perm # NoPerm /\ Running(r1)
                        THEN PermIdOf(r1.cache, kwargs.perm) ELSE 0
             r2 == Write(r1, [op |-> "createTag", tag |-> name, perm |-> perm_id], TRUE,
                         HubCreateTag(r1.remote, kwargs, perm_id))
             r3 == Changed(r2, <<"created tag id", r2.remote.id>>)
         IN  IF Running(r3) THEN [r3 EXCEPT !.tagid = r3.remote.id] ELSE r3

\* EditBranch that logs the edits only when it applies them.
EditBranch_LogOnApply(rs, name, check_mode, kwargs) ==
    LET taginfo == TagInfo(rs.remote)
        keys == EditKeys(taginfo, kwargs)
        remove_extra == RemoveExtra(taginfo, kwargs)
        r0 == [rs EXCEPT !.tagid = taginfo.id]
    IN  IF keys = {} /\ remove_extra = {} THEN r0
        ELSE IF check_mode THEN [r0 EXCEPT !.changed = TRUE]
             ELSE Write(Changed(r0, <<"edits", [k \in keys |-> kwargs[k]], remove_extra>>),
                        [op |-> "editTag2", tag |-> name, keys |-> keys,
                         remove_extra |-> remove_extra],
                        "perm" \in keys => HubKnowsPerm(r0.remote, kwargs.perm),
                        HubEditTag(r0.remote, keys, kwargs, remove_extra))

\* `else:` - the tag exists: its parameters are compared and edited.
EditBranch(rs, name, check_mode, kwargs) ==
    LET taginfo == TagInfo(rs.remote)
        keys == EditKeys(taginfo, kwargs)
        remove_extra == RemoveExtra(taginfo, kwargs)
        r0 == [rs EXCEPT !.tagid = taginfo.id]
    IN  IF keys = {} /\ remove_extra = {} THEN r0
        ELSE LET r1 == Changed(r0, <<"edits", [k \in keys |-> kwargs[k]], remove_extra>>)
             IN  IF check_mode THEN r1
                 ELSE Write(r1, [op |-> "editTag2", tag |-> name, keys |-> keys,
                                 remove_extra |-> remove_extra],
                            "perm" \in keys => HubKnowsPerm(r1.remote, kwargs.perm),
                            HubEditTag(r1.remote, keys, kwargs, remove_extra))

\* taginfo = session.getTag(name), then one of the two branches.
TagPhase(rs, name, check_mode, kwargs) ==
    LET r0 == Read(rs, [op |-> "getTag", tag |-> name])
    IN  IF ~Running(r0) THEN r0
        ELSE IF ~r0.remote.exists
             THEN CreateBranch(r0, name, check_mode, kwargs)
             ELSE EditBranch(r0, name, check_mode, kwargs)

\* new_rule, the record setInheritanceData takes.
NewRule(child_id, rule) ==
    [child_id |-> child_id,
     intransitive |-> FALSE,
     maxdepth |-> "None",
     name |-> rule.parent,
     noconfig |-> FALSE,
     parent_id |-> ParentId(rule.parent),
     pkg_filter |-> "",
     priority |-> rule.priority]

\* BuildRules that passes over a missing parent instead of raising.
RECURSIVE BuildRules_SkipMissing(_, _)
BuildRules_SkipMissing(acc, inheritance) ==
    IF inheritance = <<>> \/ ~Running(acc.rs) THEN acc
    ELSE LET rule == Head(inheritance)
             r0 == Read(acc.rs, [op |-> "getTag", tag |-> rule.parent])
         IN  IF ~Running(r0) THEN [acc EXCEPT !.rs = r0]
             ELSE IF rule.parent \notin r0.remote.parents
                  THEN BuildRules_SkipMissing([acc EXCEPT !.rs = r0], Tail(inheritance))
                  ELSE BuildRules_SkipMissing(
                           [rs |-> r0, rules |-> Append(acc.rules, NewRule(r0.tagid, rule))],
                           Tail(inheritance))

\* `for rule in inheritance`: each parent is looked up; a missing one raises ValueError.
\* acc: [rs, rules]
RECURSIVE BuildRules(_, _)
BuildRules(acc, inheritance) ==
    IF inheritance = <<>> \/ ~Running(acc.rs) THEN acc
    ELSE LET rule == Head(inheritance)
             r0 == Read(acc.rs, [op |-> "getTag", tag |-> rule.parent])
         IN  IF ~Running(r0) THEN [acc EXCEPT !.rs = r0]
             ELSE IF rule.parent \notin r0.remote.parents
                  THEN [acc EXCEPT !.rs = [r0 EXCEPT !.status = "UnresolvedParent"]]
                  ELSE BuildRules([rs |-> r0,
                                   rules |-> Append(acc.rules, NewRule(r0.tagid, rule))],
                                  Tail(inheritance))

\* The hub after setInheritanceData(name, rules, clear=True).
HubSetInheritance(rem, rules) == [rem EXCEPT !.inheritance = rules]

\* InheritancePhase that sends only the declared rules the hub does not hold yet.
InheritancePhase_OnlyNew(rs, name, check_mode, inheritance) ==
    LET built == BuildRules([rs |-> rs, rules |-> <<>>], inheritance)
        r0 == Read(built.rs, [op |-> "getInheritanceData", tag |-> name])
        current_inheritance == rs.remote.inheritance
        new_rules == SelectSeq(built.rules, LAMBDA r : r \notin SeqToSet(current_inheritance))
    IN  IF ~Running(r0) \/ current_inheritance = built.rules THEN r0
        ELSE LET r1 == Changed(r0, <<"inheritance is", inheritance>>)
             IN  IF check_mode THEN r1
                 ELSE Write(r1, [op |-> "setInheritanceData", tag |-> name,
                                 rules |-> new_rules, clear |-> TRUE],
                            TRUE, HubSetInheritance(r1.remote, built.rules))

\* Lines 246-252: the rules built are compared with getInheritanceData's as a whole.
InheritancePhase(rs, name, check_mode, inheritance) ==
    LET built == BuildRules([rs |-> rs, rules |-> <<>>], inheritance)
        r0 == Read(built.rs, [op |-> "getInheritanceData", tag |-> name])
        current_inheritance == rs.remote.inheritance
    IN  IF ~Running(r0) \/ current_inheritance = built.rules THEN r0
        ELSE LET r1 == Changed(r0, <<"inheritance is", inheritance>>)
             IN  IF check_mode THEN r1
                 ELSE Write(r1, [op |-> "setInheritanceData", tag |-> name,
                                 rules |-> built.rules, clear |-> TRUE],
                            TRUE, HubSetInheritance(r1.remote, built.rules))

\* `if external_repos is not None:`
ReposPhase(rs, name, check_mode, d, ordR) ==
    IF ~Running(rs) \/ ~d.external_repos_set THEN rs
    ELSE ensure_external_repos(rs, name, check_mode, d.external_repos, ordR)

\* The hub after packageListAdd / packageListSetOwner / packageListRemove.
\* Adding a package the tag lists already leaves it listed, under the owner given.
PkgListed(pkgs, package) == \E p \in pkgs : p.package_name = package
HubSetPkg(rem, package, owner) ==
    [rem EXCEPT !.pkgs = {p \in @ : p.package_name # package}
                         \cup {[package_name |-> package, owner_name |-> owner]}]
HubRemovePkg(rem, package) ==
    [rem EXCEPT !.pkgs = {p \in @ : p.package_name # package}]

\* The hub after packageListRemove(tag, package, owner): `tag` is the managed tag,
\* or another tag of the hub (the hub raises when it has no tag of that name).
HubHasTag(rem, managed, tag) == IF tag = managed THEN rem.exists ELSE tag \in rem.others
HubRemovePkgFrom(rem, managed, tag, package) ==
    IF tag = managed THEN HubRemovePkg(rem, package)
    ELSE [rem EXCEPT !.other_pkgs = {x \in @ : ~(x.tag = tag /\ x.package_name = package)}]

\* current_owned.get(owner, [])
CurrentOwned(current_pkgs, owner) ==
    {p.package_name : p \in {q \in current_pkgs : q.owner_name = owner}}

\* One (owner, package) of the declared mapping, against the snapshot current_pkgs.
EnsureOnePkg(rs, name, check_mode, current_pkgs, owner, package) ==
    IF ~PkgListed(current_pkgs, package)
    THEN LET r1 == IF check_mode THEN rs
                   ELSE Write(rs, [op |-> "packageListAdd", tag |-> name,
                                   package |-> package, owner |-> owner],
                              TRUE, HubSetPkg(rs.remote, package, owner))
         IN  Changed(r1, <<"added pkg", package>>)
    ELSE IF package \notin CurrentOwned(current_pkgs, owner)
         THEN LET r1 == IF check_mode THEN rs
                        ELSE Write(rs, [op |-> "packageListSetOwner", tag |-> name,
                                        package |-> package, owner |-> owner],
                                   TRUE, HubSetPkg(rs.remote, package, owner))
              IN  Changed(r1, <<"set owner", package, owner>>)
         ELSE rs

RECURSIVE EnsureOwned(_, _, _, _, _, _)
EnsureOwned(rs, name, check_mode, current_pkgs, owner, owned) ==
    IF owned = <<>> \/ ~Running(rs) THEN rs
    ELSE EnsureOwned(EnsureOnePkg(rs, name, check_mode, current_pkgs, owner, Head(owned)),
                     name, check_mode, current_pkgs, owner, Tail(owned))

\* `for owner, owned in packages.items()`
RECURSIVE EnsureOwners(_, _, _, _, _)
EnsureOwners(rs, name, check_mode, current_pkgs, packages) ==
    IF packages = <<>> \/ ~Running(rs) THEN rs
    ELSE EnsureOwners(EnsureOwned(rs, name, check_mode, current_pkgs,
                                  Head(packages).owner, Head(packages).owned),
                      name, check_mode, current_pkgs, Tail(packages))

\* all_names = [name for names in packages.values() for name in names]
AllNames(packages) == SeqToSet(Concat([i \in 1..Len(packages) |-> packages[i].owned]))

\* DeleteNames that keeps only the packages of the last owner declared.
DeleteNames_LastOwner(current_pkgs, packages) ==
    {p.package_name : p \in current_pkgs}
        \ (IF packages = <<>> THEN {} ELSE SeqToSet(packages[Len(packages)].owned))

\* delete_names = set(current_names) - set(all_names)
DeleteNames(current_pkgs, packages) ==
    {p.package_name : p \in current_pkgs} \ AllNames(packages)

\* `name` after `all_names = [name for names in packages.values() for name in names]`:
\* under Python 2 a list comprehension's variable stays bound in the function's
\* scope, so `name` is the last package name the comprehension went over (if any);
\* under Python 3 it is the tag name still.
NameAfterAllNames(name, packages, py2) ==
    LET all_names == Concat([i \in 1..Len(packages) |-> packages[i].owned])
    IN  IF py2 /\ all_names # <<>> THEN all_names[Len(all_names)] ELSE name

\* `for package in delete_names`; owner is what the loop over packages left in it,
\* `name` what line 291 left in it, `managed` the tag the run is about.
RECURSIVE RemovePkgs(_, _, _, _, _, _)
RemovePkgs(rs, managed, name, check_mode, owner, names) ==
    IF names = <<>> \/ ~Running(rs) THEN rs
    ELSE LET r1 == Changed(rs, <<"remove pkg", Head(names)>>)
             r2 == IF check_mode THEN r1
                   ELSE Write(r1, [op |-> "packageListRemove", tag |-> name,
                                   package |-> Head(names), owner |-> owner],
                              HubHasTag(r1.remote, managed, name),
                              HubRemovePkgFrom(r1.remote, managed, name, Head(names)))
         IN  RemovePkgs(r2, managed, name, check_mode, owner, Tail(names))

\* `if packages:`
PackagesPhase(rs, name, check_mode, packages, ordP, py2) ==
    IF ~Running(rs) \/ packages = <<>> THEN rs
    ELSE LET r0 == Read(rs, [op |-> "listPackages", tag |-> name])
             current_pkgs == rs.remote.pkgs
             r1 == EnsureOwners(r0, name, check_mode, current_pkgs, packages)
         IN  RemovePkgs(r1, name, NameAfterAllNames(name, packages, py2), check_mode,
                        packages[Len(packages)].owner,
                        Ordered(DeleteNames(current_pkgs, packages), ordP))

\* ensure_tag with the package list ensured before the external repos.
ensure_tag_PkgsFirst(rs, name, check_mode, d, ordR, ordP, py2) ==
    LET r1 == TagPhase(rs, name, check_mode, Kwargs(d))
        r2 == IF Running(r1) THEN InheritancePhase(r1, name, check_mode, d.inheritance)
              ELSE r1
        r3 == PackagesPhase(r2, name, check_mode, d.packages, ordP, py2)
    IN  ReposPhase(r3, name, check_mode, d, ordR)

ensure_tag(rs, name, check_mode, d, ordR, ordP, py2) ==
    LET r1 == TagPhase(rs, name, check_mode, Kwargs(d))
        r2 == IF Running(r1) THEN InheritancePhase(r1, name, check_mode, d.inheritance)
              ELSE r1
        r3 == ReposPhase(r2, name, check_mode, d, ordR)
    IN  PackagesPhase(r3, name, check_mode, d.packages, ordP, py2)

\* ------------------------------------------------------------ delete_tag
\* delete_tag without the `if taginfo:` test.
delete_tag_Unconditional(rs, name, check_mode) ==
    LET r0 == Read(rs, [op |-> "getTag", tag |-> name])
    IN  IF ~Running(r0) THEN r0
        ELSE LET r1 == Changed(r0, <<"deleted tag", r0.remote.id>>)
             IN  IF check_mode THEN r1
                 ELSE Write(r1, [op |-> "deleteTag", tag |-> name], TRUE,
                            HubDeleteTag(r1.remote))

delete_tag(rs, name, check_mode) ==
    LET r0 == Read(rs, [op |-> "getTag", tag |-> name])
    IN  IF ~Running(r0) \/ ~r0.remote.exists THEN r0
        ELSE LET r1 == Changed(r0, <<"deleted tag", r0.remote.id>>)
             IN  IF check_mode THEN r1
                 ELSE Write(r1, [op |-> "deleteTag", tag |-> name], TRUE,
                            HubDeleteTag(r1.remote))

\* ------------------------------------------------------------ run_module
\* common_koji.get_session(profile): the client session is set up from the
\* profile; no call goes to the hub for it.
get_session(rs) == rs

\* The state a run starts in: nothing called, result = {'changed': False, ...}.
NewRun(failAt) ==
    get_session([remote |-> remote, cache |-> perm_cache, fetches |-> fetches,
                 calls |-> <<>>, log |-> <<>>, changed |-> FALSE, status |-> "running",
                 failAt |-> failAt, failed |-> 0, tagid |-> 0])

\* What is kept of a finished run: the status is "ok" when the run returned
\* (module.exit_json), the error otherwise; pre is the hub the run started from.
RunRecord(module, state, check_mode, rs) ==
    [module |-> module, state |-> state, check_mode |-> check_mode,
     status |-> IF rs.status \in {"running", "returned"} THEN "ok" ELSE rs.status,
     changed |-> rs.changed, log |-> rs.log, calls |-> rs.calls, failed |-> rs.failed,
     pre |-> remote]

NoRun ==
    [module |-> "none", state |-> "", check_mode |-> FALSE, status |-> "none",
     changed |-> FALSE, log |-> <<>>, calls |-> <<>>, failed |-> 0, pre |-> remote]

\* Another run may start: the play has runs left, and its last task did not end on
\* a hub call that raised (a failed task ends the play for the host; the hub is
\* then as the calls before the failure left it).
MayRun == nruns < MaxRuns /\ last.status # "RemoteCallFailure"

\* The run rs is over: the hub, the cache and the history move on.
Finish(module, state, check_mode, rs) ==
    /\ remote' = rs.remote
    /\ perm_cache' = rs.cache
    /\ fetches' = rs.fetches
    /\ prev' = last
    /\ last' = RunRecord(module, state, check_mode, rs)
    /\ nruns' = nruns + 1
    /\ UNCHANGED desired

\* run_module with any state but 'present' taken for 'absent'.
tag_run_module_ElseAbsent(rs, state, check_mode, d, ordR, ordP, py2) ==
    IF state = "present" THEN ensure_tag(rs, TagName, check_mode, d, ordR, ordP, py2)
    ELSE delete_tag(rs, TagName, check_mode)

\* Lines 348-374: the state decides what is called; name = params['name'].
tag_run_module(rs, state, check_mode, d, ordR, ordP, py2) ==
    IF state = "present" THEN ensure_tag(rs, TagName, check_mode, d, ordR, ordP, py2)
    ELSE IF state = "absent" THEN delete_tag(rs, TagName, check_mode)
    ELSE [rs EXCEPT !.status = "InvalidTargetState"]

\* koji_tag.run_module
\* Any one of the hub calls the run issues may fail (failAt), the two sets a
\* state=present run iterates (repos_to_remove, delete_names) come in any order,
\* and the interpreter is Python 2 (py2) or Python 3 ("python >= 2.7").
TagModuleRun(state, check_mode, failAt, ordR, ordP, py2) ==
    /\ MayRun
    /\ desired.module = "koji_tag"
    /\ ordR \in Perms(ReposToRemove(remote.repos, desired.external_repos))
    /\ ordP \in Perms(DeleteNames(remote.pkgs, desired.packages))
    /\ LET rs == tag_run_module(NewRun(failAt), state, check_mode, desired,
                                ordR, ordP, py2)
       IN  /\ failAt <= Len(rs.calls)
           /\ Finish("koji_tag", state, check_mode, rs)

\* ------------------------------------------------------------ koji_cg.run_module
\* grantCGAccess raises GenericError 'User already has access to content
\* generator' when the hub holds the grant; that error alone is swallowed.
\* cg_present that lets the 'already has access' error through to the caller.
cg_present_NoSwallow(rs) ==
    LET c == [op |-> "grantCGAccess", tag |-> ""]
    IN  IF CallFails(rs) THEN Write(rs, c, FALSE, rs.remote)
        ELSE IF rs.remote.cg_access
             THEN [rs EXCEPT !.calls = Append(@, c), !.status = "AlreadyHasAccess"]
             ELSE [Write(rs, c, TRUE, [rs.remote EXCEPT !.cg_access = TRUE])
                     EXCEPT !.changed = TRUE]

cg_present(rs) ==
    LET c == [op |-> "grantCGAccess", tag |-> ""]
    IN  IF CallFails(rs) THEN Write(rs, c, FALSE, rs.remote)
        ELSE IF rs.remote.cg_access
             THEN [rs EXCEPT !.calls = Append(@, c)]
             ELSE [Write(rs, c, TRUE, [rs.remote EXCEPT !.cg_access = TRUE])
                     EXCEPT !.changed = TRUE]

cg_absent(rs) ==
    LET r1 == Write(rs, [op |-> "revokeCGAccess", tag |-> ""], TRUE,
                    [rs.remote EXCEPT !.cg_access = FALSE])
    IN  IF Running(r1) THEN [r1 EXCEPT !.changed = TRUE] ELSE r1

\* module.check_mode is never read by koji_cg.run_module.
cg_run_module(rs, state, check_mode) ==
    IF state = "present" THEN cg_present(rs)
    ELSE IF state = "absent" THEN cg_absent(rs)
    ELSE [rs EXCEPT !.status = "InvalidTargetState"]

CgRun(state, check_mode, failAt) ==
    /\ MayRun
    /\ desired.module = "koji_cg"
    /\ LET rs == cg_run_module(NewRun(failAt), state, check_mode)
       IN  /\ failAt <= Len(rs.calls)
           /\ Finish("koji_cg", state, check_mode, rs)

\* ------------------------------------------------------------ initial states
SeqsUpTo(S, n) == UNION {[1..k -> S] : k \in 0..n}

\* The hub's permission table: empty, or holding "admin".
Catalogs == {{}, {[name |-> "admin", id |-> 1]}}

\* Tag parameters and the hub's tag attributes they meet. d: declared, r: on the hub.
AttrPairs ==
    {[d |-> [arches |-> "x86_64", perm |-> p, locked |-> FALSE, maven_support |-> FALSE,
             maven_include_all |-> FALSE, extra |-> e],
      r |-> [perms |-> cat,
             attrs |-> [arches |-> "x86_64", perm_id |-> pid, locked |-> l,
                        maven_support |-> FALSE, maven_include_all |-> FALSE,
                        extra |-> re]]] :
        p \in {NoPerm, "admin", "bogus"},
        e \in {{}, {[key |-> "a", value |-> 1]}},
        cat \in Catalogs, pid \in {0, 1}, l \in BOOLEAN,
        re \in {{}, {[key |-> "a", value |-> 2]},
                {[key |-> "a", value |-> 1], [key |-> "b", value |-> 2]}}}

AttrPairsOk == {a \in AttrPairs : a.r.attrs.perm_id = 0 \/ a.r.perms # {}}

AttrQuiet ==
    {a \in AttrPairsOk : a.d.perm = NoPerm /\ a.d.extra = {} /\ a.r.perms # {}
                         /\ a.r.attrs.perm_id = 0 /\ ~a.r.attrs.locked /\ a.r.attrs.extra = {}}
AttrBusy ==
    {a \in AttrPairsOk : a.d.perm = "admin" /\ a.d.extra = {} /\ a.r.perms # {}
                         /\ a.r.attrs.perm_id = 0 /\ ~a.r.attrs.locked /\ a.r.attrs.extra = {}}

\* Declared inheritance, the parent tags that exist, and the tag's rules on the hub
\* (of an existing tag, whose id is 10).
InhPairs ==
    {[d |-> inh, r |-> [parents |-> ps, inheritance |-> cur]] :
        inh \in SeqsUpTo([parent : ParentNames, priority : Priorities], MaxLen),
        ps \in {{"P1"}, ParentNames},
        cur \in {<<>>, <<NewRule(10, [parent |-> "P1", priority |-> 0])>>,
                 <<[NewRule(10, [parent |-> "P1", priority |-> 0]) EXCEPT !.noconfig = TRUE]>>}}

InhPairsOk == {i \in InhPairs : \A k \in DOMAIN i.r.inheritance : i.r.inheritance[k].name \in i.r.parents}

InhQuiet == {i \in InhPairsOk : i.d = <<>> /\ i.r.parents = {"P1"} /\ i.r.inheritance = <<>>}
InhBusy ==
    {i \in InhPairsOk : i.d = <<[parent |-> "P1", priority |-> 0]>>
                        /\ i.r.parents = {"P1"} /\ i.r.inheritance = <<>>}

\* Bindings with one entry per name: what the hub holds.
Bindings == {b \in SUBSET [external_repo_name : RepoNames, priority : Priorities] :
                \A x, y \in b : x.external_repo_name = y.external_repo_name => x = y}

RepoPairs ==
    {[d |-> [set |-> TRUE, repos |-> l], r |-> b] :
        l \in SeqsUpTo([repo : RepoNames, priority : Priorities], MaxLen), b \in Bindings}
    \cup {[d |-> [set |-> FALSE, repos |-> <<>>], r |-> b] : b \in Bindings}

RepoQuiet == {x \in RepoPairs : ~x.d.set /\ x.r = {}}
RepoBusy ==
    {x \in RepoPairs : x.d.set /\ x.d.repos = <<[repo |-> "r1", priority |-> 0]>> /\ x.r = {}}

\* Package lists with one entry per package: what the hub holds.
PkgLists == {l \in SUBSET [package_name : PkgNames, owner_name : OwnerNames] :
                \A x, y \in l : x.package_name = y.package_name => x = y}

\* The declared mapping, in the order packages.items() yields it: no owner
\* twice, "alice" first (the hub's lists above hold either owner for either package).
OwnedLists == {Ordered(S, <<"foo", "bar">>) : S \in SUBSET PkgNames}
PkgDecls ==
    {[i \in 1..Len(os) |-> [owner |-> os[i], owned |-> m[os[i]]]] :
        os \in {Ordered(S, <<"alice", "bob">>) : S \in SUBSET OwnerNames},
        m \in [OwnerNames -> OwnedLists]}

\* The hub's other tags that carry the name of a package: none, or one per
\* package name, each listing every package.
OtherTags == {{}, PkgNames}

PkgPairs == {[d |-> m, r |-> l, others |-> o] : m \in PkgDecls, l \in PkgLists, o \in OtherTags}

PkgQuiet == {x \in PkgPairs : x.d = <<>> /\ x.r = {} /\ x.others = {}}
PkgBusy ==
    {x \in PkgPairs : x.d = <<[owner |-> "alice", owned |-> <<"foo">>]>> /\ x.r = {}
                      /\ x.others = {}}

\* A scenario varies one of the four parts freely and leaves the other three
\* quiet (nothing to do), or has each part quiet or busy (one change to make).
Pick(part, focus, full, quietSet, busySet) ==
    IF part = focus THEN full
    ELSE IF focus = "mixed" THEN quietSet \cup busySet ELSE quietSet

Scenarios ==
    UNION {{[attrs |-> a, inh |-> i, repos |-> r, pkgs |-> p] :
                a \in Pick("attrs", f, AttrPairsOk, AttrQuiet, AttrBusy),
                i \in Pick("inh", f, InhPairsOk, InhQuiet, InhBusy),
                r \in Pick("repos", f, RepoPairs, RepoQuiet, RepoBusy),
                p \in Pick("pkgs", f, PkgPairs, PkgQuiet, PkgBusy)} :
           f \in {"attrs", "inh", "repos", "pkgs", "mixed"}}

\* module.params
Desired(module, sc) ==
    [module |-> module,
     arches |-> sc.attrs.d.arches, perm |-> sc.attrs.d.perm, locked |-> sc.attrs.d.locked,
     maven_support |-> sc.attrs.d.maven_support,
     maven_include_all |-> sc.attrs.d.maven_include_all, extra |-> sc.attrs.d.extra,
     inheritance |-> sc.inh.d,
     external_repos_set |-> sc.repos.d.set, external_repos |-> sc.repos.d.repos,
     packages |-> sc.pkgs.d]

\* The hub: with the tag (id 10) and what hangs on it, or without it.
Hub(sc, exists, cg_access) ==
    [exists |-> exists, id |-> IF exists THEN 10 ELSE 0,
     nextId |-> IF exists THEN 11 ELSE 10,
     perms |-> sc.attrs.r.perms, parents |-> sc.inh.r.parents,
     attrs |-> IF exists THEN sc.attrs.r.attrs
               ELSE [sc.attrs.r.attrs EXCEPT !.perm_id = 0, !.locked = FALSE, !.extra = {}],
     inheritance |-> IF exists THEN sc.inh.r.inheritance ELSE <<>>,
     repos |-> IF exists THEN sc.repos.r ELSE {},
     pkgs |-> IF exists THEN sc.pkgs.r ELSE {},
     others |-> sc.pkgs.others,
     other_pkgs |-> [tag : sc.pkgs.others, package_name : PkgNames],
     cg_access |-> cg_access]

QuietScenario ==
    CHOOSE sc \in Scenarios :
        sc.attrs \in AttrQuiet /\ sc.inh \in InhQuiet /\ sc.repos \in RepoQuiet
        /\ sc.pkgs \in PkgQuiet

Init ==
    /\ \/ \E sc \in Scenarios, exists \in BOOLEAN :
            /\ desired = Desired("koji_tag", sc)
            /\ remote = Hub(sc, exists, FALSE)
       \/ \E cg_access \in BOOLEAN :
            /\ desired = Desired("koji_cg", QuietScenario)
            /\ remote = Hub(QuietScenario, FALSE, cg_access)
    /\ perm_cache = {}
    /\ fetches = 0
    /\ nruns = 0
    /\ prev = NoRun
    /\ last = NoRun

\* No run issues more hub calls than this: the calls of ensure_tag's four parts.
MaxCalls ==
    3 + (MaxLen + 2) + (1 + MaxLen + Cardinality(RepoNames))
      + (1 + Cardinality(OwnerNames) * Cardinality(PkgNames) + Cardinality(PkgNames))

Next ==
    \/ \E state \in {"present", "absent", "other"}, check_mode \in BOOLEAN,
          failAt \in 0..MaxCalls,
          ordR \in Perms(ReposToRemove(remote.repos, desired.external_repos)),
          ordP \in Perms(DeleteNames(remote.pkgs, desired.packages)),
          py2 \in BOOLEAN :
            TagModuleRun(state, check_mode, failAt, ordR, ordP, py2)
    \/ \E state \in {"present", "absent", "other"}, check_mode \in BOOLEAN,
          failAt \in 0..MaxCalls :
            CgRun(state, check_mode, failAt)

Spec == Init /\ [][Next]_vars

\* ------------------------------------------------------------ reading a run's record
Writes(calls) == SelectSeq(calls, IsWrite)

Ops(calls) == {calls[i].op : i \in DOMAIN calls}

\* The calls of op (a set of names) the run issued.
CountOps(calls, ops) == Len(SelectSeq(calls, LAMBDA c : c.op \in ops))

TagRun(r, state) == r.module = "koji_tag" /\ r.state = state

AttrOps == {"createTag", "editTag2"}
InhOps == {"setInheritanceData"}
RepoOps == {"addExternalRepoToTag", "editTagExternalRepo", "removeExternalRepoFromTag"}
PkgOps == {"packageListAdd", "packageListSetOwner", "packageListRemove"}

\* No package is declared under two owners.
NoPkgTwice ==
    \A i, j \in DOMAIN desired.packages :
        i # j => SeqToSet(desired.packages[i].owned) \cap SeqToSet(desired.packages[j].owned) = {}

\* Two apply-mode runs of state=present in a row, the first of which succeeded;
\* nothing but the runs changes the hub.
TwoApplyRuns ==
    /\ TagRun(prev, "present") /\ ~prev.check_mode /\ prev.status = "ok"
    /\ TagRun(last, "present") /\ ~last.check_mode

SecondRunQuiet == (last.status = "ok" => ~last.changed) /\ Writes(last.calls) = <<>>

\* C1 as claimed: the second of two apply runs with the same parameters reports
\* changed=false and issues no mutating call, whatever the declared lists hold.
C1_IdempotentAnyInput == TwoApplyRuns => SecondRunQuiet

\* C2: a check-mode run of koji_tag (state present or absent) issues no mutating
\* call, and leaves the hub as it found it.
C2_TagDryRunSafe ==
    (last.module = "koji_tag" /\ last.check_mode) =>
        (Writes(last.calls) = <<>> /\ remote = last.pre)

\* A check-mode run on an existing tag that found changes in three parts or more.
C2_Witness ==
    /\ TagRun(last, "present") /\ last.check_mode /\ last.status = "ok"
    /\ last.pre.exists /\ Len(last.log) >= 3

\* C3: a check-mode run of koji_cg issues neither grantCGAccess nor revokeCGAccess.
C3_CgDryRunSafe ==
    (last.module = "koji_cg" /\ last.check_mode) => Writes(last.calls) = <<>>

\* A check-mode run and then an apply-mode run of the same state, both returning,
\* from the same hub state.
DryThenApply ==
    /\ prev.module = "koji_tag" /\ last.module = "koji_tag" /\ prev.state = last.state
    /\ prev.check_mode /\ ~last.check_mode
    /\ prev.status = "ok" /\ last.status = "ok"
    /\ prev.pre = last.pre

\* C4: the check-mode run reports the same `changed` as the apply-mode run.
C4_SameChanged == DryThenApply => prev.changed = last.changed

\* The tag did not exist: 'would create', and then the tag created with its parts.
C4_Witness ==
    /\ DryThenApply /\ last.state = "present" /\ ~last.pre.exists
    /\ last.changed /\ Len(last.log) >= 2

\* C5 as claimed: the check-mode run's log is the apply-mode run's log.
C5_SameLog == DryThenApply => prev.log = last.log

\* How often entry e occurs in a log.
Occurs(e, log) == Cardinality({i \in DOMAIN log : log[i] = e})
SameEntries(a, b) ==
    /\ Len(a) = Len(b)
    /\ \A i \in DOMAIN a : Occurs(a[i], a) = Occurs(a[i], b)

\* The entries ensure_tag logs for a removal, which follow the iteration of a set.
IsRemoval(e) == e[1] \in {"removed repo", "remove pkg"}
FewRemovals(log) == Cardinality({i \in DOMAIN log : IsRemoval(log[i])}) <= 1

\* C5 amended: with state=absent, and with state=present on a tag that exists, the
\* two logs hold the same entries, in the same order up to the order of the
\* removals of repos and of packages; on a tag that does not exist the check-mode
\* log is 'would create tag' alone and the apply-mode log starts 'created tag id'.
C5_SameLogExistingTag ==
    DryThenApply =>
        IF last.state = "present" /\ ~last.pre.exists
        THEN /\ prev.log = <<<<"would create tag", TagName>>>>
             /\ Len(last.log) >= 1 /\ last.log[1][1] = "created tag id"
        ELSE /\ SameEntries(prev.log, last.log)
             /\ SelectSeq(prev.log, LAMBDA e : ~IsRemoval(e))
                  = SelectSeq(last.log, LAMBDA e : ~IsRemoval(e))
             /\ FewRemovals(last.log) => prev.log = last.log

\* An existing tag on which both runs logged an edit and three entries or more.
C5_Witness ==
    /\ DryThenApply /\ last.state = "present" /\ last.pre.exists
    /\ Len(last.log) >= 3 /\ last.log[1][1] = "edits"

\* The part of ensure_tag a mutating call belongs to.
Phase(op) ==
    IF op \in AttrOps THEN 1 ELSE IF op \in InhOps THEN 2
    ELSE IF op \in RepoOps THEN 3 ELSE 4

\* C6: in an apply-mode run of state=present the mutating calls come in the order
\* attributes, inheritance, external repos, packages; there is one attribute call
\* at most and one inheritance call at most.
C6_PhaseOrder ==
    (TagRun(last, "present") /\ ~last.check_mode) =>
        LET w == Writes(last.calls)
        IN  /\ \A i, j \in DOMAIN w : i < j => Phase(w[i].op) <= Phase(w[j].op)
            /\ CountOps(w, AttrOps) <= 1
            /\ CountOps(w, InhOps) <= 1

\* A run that wrote in all four parts.
C6_Witness ==
    /\ TagRun(last, "present") /\ ~last.check_mode /\ last.status = "ok"
    /\ {Phase(op) : op \in Ops(Writes(last.calls))} = {1, 2, 3, 4}

\* The declared inheritance names a parent tag the hub does not have.
MissingParent ==
    \E i \in DOMAIN desired.inheritance : desired.inheritance[i].parent \notin last.pre.parents

\* The run stopped at the parent lookup: nothing of inheritance, repos or packages
\* was called, and in apply mode the tag is there with the declared attributes.
FailedAtParent ==
    /\ last.status = "UnresolvedParent"
    /\ Ops(last.calls) \subseteq {"getTag", "getAllPerms", "createTag", "editTag2"}
    /\ ~last.check_mode =>
          /\ remote.exists
          /\ \A k \in AttrKeys : TagInfo(remote)[k] = Kwargs(desired)[k]
          /\ remote.inheritance = last.pre.inheritance

C8_CatalogFetchedOnce == fetches <= 1

\* How many entries of the declared list name repo n (with priority p).
DeclaredRepo(n) ==
    Cardinality({i \in DOMAIN desired.external_repos : desired.external_repos[i].repo = n})
DeclaredRepoAt(n, p) ==
    Cardinality({i \in DOMAIN desired.external_repos :
                    desired.external_repos[i] = [repo |-> n, priority |-> p]})

\* The calls the last run issued for repo n.
RepoCalls(op, n) == Len(SelectSeq(last.calls, LAMBDA c : c.op = op /\ c.repo = n))
RepoEdits(n, p) ==
    Len(SelectSeq(last.calls,
                  LAMBDA c : c.op = "editTagExternalRepo" /\ c.repo = n /\ c.priority = p))

\* What the diff of the declared list against the bindings `cur` asks for.
AddsDue(cur, n) == IF RepoBound(cur, n) THEN 0 ELSE DeclaredRepo(n)
EditsDue(cur, n, p) ==
    IF RepoBound(cur, n) /\ RepoPriority(cur, n) # p THEN DeclaredRepoAt(n, p) ELSE 0
RemovesDue(cur, n) == IF RepoBound(cur, n) /\ DeclaredRepo(n) = 0 THEN 1 ELSE 0

\* C9: with external_repos unset a run calls nothing for external repos and the
\* bindings stay; otherwise an apply-mode run that returns has issued one add per
\* declared entry whose repo was not bound, one edit per declared entry whose repo
\* was bound at another priority, nothing for an entry bound at its priority, and
\* one remove per bound repo that is not declared; an aborted run has issued no
\* more than that; the empty list leaves no binding.
C9_ExternalRepoDiff ==
    TagRun(last, "present") =>
        /\ ~desired.external_repos_set =>
              /\ Ops(last.calls) \cap (RepoOps \cup {"getTagExternalRepos"}) = {}
              /\ remote.repos = last.pre.repos
        /\ (desired.external_repos_set /\ ~last.check_mode) =>
              \A n \in RepoNames :
                  LET cur == last.pre.repos
                      done == last.status = "ok"
                  IN  /\ RepoCalls("addExternalRepoToTag", n) <= AddsDue(cur, n)
                      /\ RepoCalls("removeExternalRepoFromTag", n) <= RemovesDue(cur, n)
                      /\ \A p \in Priorities : RepoEdits(n, p) <= EditsDue(cur, n, p)
                      /\ done => /\ RepoCalls("addExternalRepoToTag", n) = AddsDue(cur, n)
                                 /\ RepoCalls("removeExternalRepoFromTag", n)
                                      = RemovesDue(cur, n)
                                 /\ \A p \in Priorities : RepoEdits(n, p) = EditsDue(cur, n, p)
                                 /\ RepoCalls("editTagExternalRepo", n)
                                      = IF RepoBound(cur, n) THEN DeclaredRepo(n)
                                           - DeclaredRepoAt(n, RepoPriority(cur, n))
                                        ELSE 0
                                 /\ desired.external_repos = <<>> => remote.repos = {}

\* One repo edited to its declared priority and the other, undeclared, removed.
C9_Witness ==
    /\ TagRun(last, "present") /\ ~last.check_mode /\ last.status = "ok"
    /\ desired.external_repos_set
    /\ \E n, m \in RepoNames :
          /\ RepoCalls("editTagExternalRepo", n) = 1
          /\ RepoCalls("addExternalRepoToTag", n) = 0
          /\ RepoCalls("removeExternalRepoFromTag", m) = 1

\* Package k is declared for owner o; package k is declared at all.
DeclaredPkg(o, k) ==
    \E i \in DOMAIN desired.packages :
        desired.packages[i].owner = o /\ k \in SeqToSet(desired.packages[i].owned)
DeclaredName(k) == \E o \in OwnerNames : DeclaredPkg(o, k)

OwnerOf(pkgs, k) == (CHOOSE q \in pkgs : q.package_name = k).owner_name

\* The calls the last run issued for package k (and owner o).
PkgCalls(op, k, o) ==
    Len(SelectSeq(last.calls, LAMBDA c : c.op = op /\ c.package = k /\ c.owner = o))
PkgRemoves(k) ==
    Len(SelectSeq(last.calls, LAMBDA c : c.op = "packageListRemove" /\ c.package = k))

PkgAddsDue(cur, k, o) == IF DeclaredPkg(o, k) /\ ~PkgListed(cur, k) THEN 1 ELSE 0
PkgOwnersDue(cur, k, o) ==
    IF DeclaredPkg(o, k) /\ PkgListed(cur, k) /\ OwnerOf(cur, k) # o THEN 1 ELSE 0
PkgRemovesDue(cur, k) == IF PkgListed(cur, k) /\ ~DeclaredName(k) THEN 1 ELSE 0

\* C10: with an empty packages mapping a run calls nothing for packages and the
\* list stays; otherwise an apply-mode run that returns has issued one add per
\* declared (owner, package) whose package was not listed, one packageListSetOwner
\* per declared (owner, package) listed under another owner and no add or remove
\* for it, nothing for one listed under its owner, and one remove per listed
\* package that no owner declares; an aborted run has issued no more than that.
C10_PackageDiff ==
    TagRun(last, "present") =>
        /\ desired.packages = <<>> =>
              /\ Ops(last.calls) \cap (PkgOps \cup {"listPackages"}) = {}
              /\ remote.pkgs = last.pre.pkgs
        /\ (desired.packages # <<>> /\ ~last.check_mode) =>
              \A k \in PkgNames :
                  LET cur == last.pre.pkgs
                      done == last.status = "ok"
                  IN  /\ PkgRemoves(k) <= PkgRemovesDue(cur, k)
                      /\ done => PkgRemoves(k) = PkgRemovesDue(cur, k)
                      /\ \A o \in OwnerNames :
                            /\ PkgCalls("packageListAdd", k, o) <= PkgAddsDue(cur, k, o)
                            /\ PkgCalls("packageListSetOwner", k, o) <= PkgOwnersDue(cur, k, o)
                            /\ done =>
                                 /\ PkgCalls("packageListAdd", k, o) = PkgAddsDue(cur, k, o)
                                 /\ PkgCalls("packageListSetOwner", k, o)
                                      = PkgOwnersDue(cur, k, o)

\* One package handed to its declared owner, the other, undeclared, removed.
C10_Witness ==
    /\ TagRun(last, "present") /\ ~last.check_mode /\ last.status = "ok"
    /\ \E k, m \in PkgNames, o \in OwnerNames :
          /\ PkgCalls("packageListSetOwner", k, o) = 1
          /\ PkgCalls("packageListAdd", k, o) = 0
          /\ PkgRemoves(k) = 0
          /\ PkgRemoves(m) = 1

\* The id the managed tag has in the last run: its id, or the one createTag gives it.
TagIdOf(pre) == IF pre.exists THEN pre.id ELSE pre.nextId

\* The rule set the declared inheritance stands for, and the one the hub held.
DeclaredRules == [i \in DOMAIN desired.inheritance |->
                     NewRule(TagIdOf(last.pre), desired.inheritance[i])]
CurrentRules == IF last.pre.exists THEN last.pre.inheritance ELSE <<>>

\* The last run's i-th call came back (it is not the call the run failed at).
CameBack(i) == ~(last.status = "RemoteCallFailure" /\ i = Len(last.calls))

\* The last run got as far as comparing the two rule sets.
ComparedRules ==
    \E i \in DOMAIN last.calls : last.calls[i].op = "getInheritanceData" /\ CameBack(i)

LogsInheritance == \E i \in DOMAIN last.log : last.log[i][1] = "inheritance is"

StaleExtraKeys ==
    {e.key : e \in last.pre.attrs.extra} \ {e.key : e \in desired.extra}

\* The declared parameters whose value on the hub was another one.
DifferingAttrs == {k \in AttrKeys : TagInfo(last.pre)[k] # desired[k]}

\* The last run read the tag (its first call, getTag, came back).
ReadTag == Len(last.calls) >= 1 /\ CameBack(1)

\* C12: a state=present run on a tag that exists sends, in apply mode, one editTag2
\* whose remove_extra is the set of keys the hub's extra holds and the declared
\* extra lacks, and whose other arguments are the declared parameters that differ;
\* it reports changed=true when that set is not empty; it issues no editTag2 when
\* the set is empty and no declared parameter differs; an edit the hub accepted
\* leaves the tag's extra equal to the declared extra. Check mode calls nothing.
C12_ExtraRemoval ==
    (TagRun(last, "present") /\ last.pre.exists /\ ReadTag) =>
        LET edits == SelectSeq(last.calls, LAMBDA c : c.op = "editTag2")
        IN  /\ StaleExtraKeys # {} => last.changed
            /\ (StaleExtraKeys = {} /\ DifferingAttrs = {}) =>
                    /\ edits = <<>>
                    /\ \A i \in DOMAIN last.log : last.log[i][1] # "edits"
            /\ (StaleExtraKeys # {} \/ DifferingAttrs # {}) =>
                    /\ last.log[1] = <<"edits", [k \in DifferingAttrs |-> desired[k]],
                                       StaleExtraKeys>>
                    /\ last.check_mode => edits = <<>>
                    /\ ~last.check_mode =>
                          /\ Len(edits) = 1
                          /\ last.calls[2] = edits[1]
                          /\ edits[1].remove_extra = StaleExtraKeys
                          /\ edits[1].keys = DifferingAttrs
                          /\ (Len(last.calls) > 2 \/ last.status = "ok") =>
                                remote.attrs.extra = desired.extra
            /\ "createTag" \notin Ops(last.calls)

\* Declared extra {a: 1} against the hub's {a: 1, b: 2}: the remove-set is {b}.
C12_Witness ==
    /\ TagRun(last, "present") /\ ~last.check_mode /\ last.status = "ok" /\ last.pre.exists
    /\ desired.extra = {[key |-> "a", value |-> 1]}
    /\ last.pre.attrs.extra = {[key |-> "a", value |-> 1], [key |-> "b", value |-> 2]}
    /\ \E i \in DOMAIN last.calls :
          last.calls[i].op = "editTag2" /\ last.calls[i].remove_extra = {"b"}

\* C13: a state=absent run calls getTag and, at most, deleteTag, and nothing for
\* inheritance, external repos or packages. On a tag that exists it reports
\* changed=true and, in apply mode, issues one deleteTag of the tag and no other
\* write, after which the tag is gone; on a tag that does not exist it reports
\* changed=false, issues no write and leaves the hub as it was.
C13_Deletion ==
    TagRun(last, "absent") =>
        /\ Ops(last.calls) \subseteq {"getTag", "deleteTag"}
        /\ (last.pre.exists /\ ReadTag) =>
              /\ last.changed /\ last.log = <<<<"deleted tag", last.pre.id>>>>
              /\ last.check_mode => Writes(last.calls) = <<>> /\ remote = last.pre
              /\ ~last.check_mode =>
                    /\ Writes(last.calls) = <<[op |-> "deleteTag", tag |-> TagName]>>
                    /\ last.status = "ok" => ~remote.exists
        /\ ~(last.pre.exists /\ ReadTag) =>
              /\ ~last.changed /\ last.log = <<>>
              /\ Writes(last.calls) = <<>> /\ remote = last.pre

\* A tag with external repos and packages on it is deleted.
C13_Witness ==
    /\ TagRun(last, "absent") /\ ~last.check_mode /\ last.status = "ok"
    /\ last.pre.exists /\ last.pre.repos # {} /\ last.pre.pkgs # {}
    /\ ~remote.exists

CgRunOf(r, state) == r.module = "koji_cg" /\ r.state = state

\* C14: a koji_cg run with state=present issues one grantCGAccess and nothing else;
\* it returns changed=true with the access granted when the hub did not hold the
\* grant, returns changed=false with the hub untouched when the hub held it (the
\* 'User already has access to content generator' error), and fails, the hub
\* untouched, on any other error. A run with state=absent issues one revokeCGAccess
\* and nothing else, and returns changed=true, the access gone, whether the hub
\* held the grant or not; a failing revoke fails the run.
C14_AccessGrant ==
    /\ CgRunOf(last, "present") =>
          /\ Len(last.calls) = 1 /\ last.calls[1].op = "grantCGAccess"
          /\ last.status \in {"ok", "RemoteCallFailure"}
          /\ last.status = "ok" =>
                /\ last.changed = ~last.pre.cg_access
                /\ remote = [last.pre EXCEPT !.cg_access = TRUE]
          /\ last.status # "ok" => ~last.changed /\ remote = last.pre
    /\ CgRunOf(last, "absent") =>
          /\ Len(last.calls) = 1 /\ last.calls[1].op = "revokeCGAccess"
          /\ last.status \in {"ok", "RemoteCallFailure"}
          /\ last.status = "ok" =>
                /\ last.changed
                /\ remote = [last.pre EXCEPT !.cg_access = FALSE]
          /\ last.status # "ok" => ~last.changed /\ remote = last.pre

\* The access is granted, and granted again: the second run swallows the error.
C14_Witness ==
    /\ CgRunOf(prev, "present") /\ prev.status = "ok" /\ prev.changed
    /\ CgRunOf(last, "present") /\ last.status = "ok" /\ ~last.changed
    /\ last.pre.cg_access

\* C15: a run of koji_tag or of koji_cg whose state is neither 'present' nor
\* 'absent' fails (State must be 'present' or 'absent') with changed=false, having
\* issued no hub call, read or write; the hub and the permission cache are as before.
C15_InvalidState ==
    last.state = "other" =>
        /\ last.status = "InvalidTargetState"
        /\ ~last.changed /\ last.log = <<>>
        /\ last.calls = <<>>
        /\ remote = last.pre

\* Such a run of koji_cg, on a hub that holds the grant a revoke would take away.
C15_Witness ==
    /\ CgRunOf(last, "other") /\ last.status = "InvalidTargetState"
    /\ last.pre.cg_access /\ remote.cg_access

\* The declared perm is a label the hub's permission table does not hold.
UnknownLabel ==
    desired.perm # NoPerm /\ \A p \in last.pre.perms : p.name # desired.perm

\* The last run failed at a read (no write had been issued when a call failed).
ReadFailed == last.status = "RemoteCallFailure" /\ Writes(last.calls) = <<>>

\* C16 as claimed: an apply-mode state=present run whose perm label is not in the
\* catalog fails with UnknownPermission without a createTag or an editTag2 call,
\* on a tag that does not exist and on one that exists with another permission.
C16_UnknownPermFatal ==
    (TagRun(last, "present") /\ ~last.check_mode /\ UnknownLabel /\ ~ReadFailed) =>
        /\ last.status = "UnknownPermission"
        /\ Ops(last.calls) \cap {"createTag", "editTag2"} = {}

\* C16 amended: on a tag that does not exist the run fails with UnknownPermission
\* (KeyError of get_perm_id) after getTag and, at most, getAllPerms, with no
\* createTag and no editTag2, the hub untouched; on a tag that exists the label is
\* not looked up: the run issues one editTag2 naming perm and no getAllPerms, and
\* the failure is the one the hub raises for that call, the hub untouched.
C16_UnknownPermOnCreate ==
    (TagRun(last, "present") /\ ~last.check_mode /\ UnknownLabel) =>
        /\ remote = last.pre
        /\ ~last.pre.exists =>
              /\ last.status \in {"UnknownPermission", "RemoteCallFailure"}
              /\ ~ReadFailed => last.status = "UnknownPermission"
              /\ Ops(last.calls) \subseteq {"getTag", "getAllPerms"}
        /\ (last.pre.exists /\ ReadTag) =>
              /\ Len(last.calls) = 2
              /\ last.calls[2].op = "editTag2" /\ "perm" \in last.calls[2].keys
              /\ last.status = "RemoteCallFailure"

\* The tag exists without a permission, the declared label is unknown: editTag2 is
\* issued and refused.
C16_Witness ==
    /\ TagRun(last, "present") /\ ~last.check_mode /\ UnknownLabel
    /\ last.pre.exists /\ last.pre.attrs.perm_id = 0
    /\ "editTag2" \in Ops(last.calls) /\ last.status = "RemoteCallFailure"

\* The hub after the call c has gone through, by the hub's own rules.
HubAfter(rem, c) ==
    CASE c.op = "createTag" -> HubCreateTag(rem, Kwargs(desired), c.perm)
      [] c.op = "editTag2" -> HubEditTag(rem, c.keys, Kwargs(desired), c.remove_extra)
      [] c.op = "deleteTag" -> HubDeleteTag(rem)
      [] c.op = "setInheritanceData" -> HubSetInheritance(rem, c.rules)
      [] c.op \in {"addExternalRepoToTag", "editTagExternalRepo"} ->
            HubSetRepo(rem, c.repo, c.priority)
      [] c.op = "removeExternalRepoFromTag" -> HubRemoveRepo(rem, c.repo)
      [] c.op \in {"packageListAdd", "packageListSetOwner"} ->
            HubSetPkg(rem, c.package, c.owner)
      [] c.op = "packageListRemove" -> HubRemovePkgFrom(rem, TagName, c.tag, c.package)
      [] c.op = "grantCGAccess" -> [rem EXCEPT !.cg_access = TRUE]
      [] c.op = "revokeCGAccess" -> [rem EXCEPT !.cg_access = FALSE]
      [] OTHER -> rem

\* The hub after the calls of cs, in order, but for the `failed`-th, which raised.
RECURSIVE HubAfterAll(_, _, _, _)
HubAfterAll(rem, cs, i, failed) ==
    IF i > Len(cs) THEN rem
    ELSE HubAfterAll(IF i = failed THEN rem ELSE HubAfter(rem, cs[i]), cs, i + 1, failed)

\* C17: a hub call that raises (other than a grantCGAccess refused for 'already has
\* access') ends the run in failure, and is the last call of the run; the hub is
\* then what the calls before it made of it - nothing is undone; a run that
\* returns, or fails for another reason, leaves the hub as all its calls made it.
C17_AbortNoRollback ==
    last.module # "none" =>
        /\ last.failed # 0 <=> last.status = "RemoteCallFailure"
        /\ last.failed # 0 => last.failed = Len(last.calls)
        /\ remote = HubAfterAll(last.pre, last.calls, 1, last.failed)

\* The run failed at its fourth write or later: three writes stay applied.
C17_Witness ==
    /\ TagRun(last, "present") /\ last.status = "RemoteCallFailure"
    /\ IsWrite(last.calls[last.failed])
    /\ Len(Writes(last.calls)) >= 4
    /\ remote # last.pre

\* C18: every mutating call of a koji_tag run names the managed tag, the package
\* removals issued after all_names is computed among them, and no other tag of the
\* hub is changed.
C18_WritesOnTag ==
    last.module = "koji_tag" =>
        /\ \A i \in DOMAIN last.calls : IsWrite(last.calls[i]) => last.calls[i].tag = TagName
        /\ remote.others = last.pre.others
        /\ remote.other_pkgs = last.pre.other_pkgs

\* C19: a koji_tag run that returns reports changed=true exactly when its log is
\* not empty, and, in apply mode, exactly when it issued a mutating call (one per
\* entry of the log).
C19_ChangedMatches ==
    (last.module = "koji_tag" /\ last.status = "ok") =>
        /\ last.changed <=> last.log # <<>>
        /\ ~last.check_mode =>
              /\ last.changed <=> Writes(last.calls) # <<>>
              /\ Len(last.log) = Len(Writes(last.calls))

\* An apply-mode run on an existing tag that had one thing to change, and a
\* second run that had none.
C19_Witness ==
    /\ TagRun(prev, "present") /\ ~prev.check_mode /\ prev.status = "ok"
    /\ prev.pre.exists /\ prev.changed /\ Len(Writes(prev.calls)) = 1
    /\ TagRun(last, "present") /\ ~last.check_mode /\ last.status = "ok"
    /\ ~last.changed /\ last.log = <<>> /\ Writes(last.calls) = <<>>

\* The list the declared mapping stands for: each declared package once, under
\* the owner it is declared for.
DeclaredList ==
    {[package_name |-> k, owner_name |-> o] :
        <<k, o>> \in {x \in PkgNames \X OwnerNames : DeclaredPkg(x[2], x[1])}}

\* C20: after an apply-mode state=present run that returned, with a non-empty
\* packages mapping that declares no package under two owners, the tag's package
\* list is the declared one: the declared packages, each once and under its
\* declared owner, and no other package, whatever the list was before.
C20_PackagesConverge ==
    (TagRun(last, "present") /\ ~last.check_mode /\ last.status = "ok"
        /\ desired.packages # <<>> /\ NoPkgTwice)
    => remote.pkgs = DeclaredList

====
